---- MODULE Spec2Model ----
(***************************************************************************)
(* restheart-cli: the process lifecycle and file-watch orchestration core. *)
(*                                                                         *)
(* One CLI session of `rh watch`: runCommand('watch') runs checkAndKill,   *)
(* the optional build and deploy, ProcessManager.run, and then attaches    *)
(* Watcher.watchFiles, whose debounced change handler runs rebuild cycles. *)
(* Time is counted in ticks of one poll interval (200 ms).  The event loop *)
(* is single threaded: a handler runs from one await to the next without   *)
(* interleaving; the managed java processes and the clock are concurrent.  *)
(*                                                                         *)
(* Spec and FairSpec are the watch session, SpecEvents adds SIGINT and the *)
(* watcher's error events, SpecStatus is `rh status`, and SpecCmd is one   *)
(* invocation of build, run, kill or watch over a process table and disk.  *)
(***************************************************************************)
EXTENDS Integers, Sequences, FiniteSets, TLC

\* ------------------------------------------------------------ constants
\* process-manager.js:383  let timeout = 30
PollAttempts == 30
\* process-manager.js:388  setTimeout(resolve, 200)
PollIntervalMs == 200
\* process-manager.js:261  checkPort(httpPort + 1000)
DebugPortOffset == 1000
\* highest TCP port net.createConnection accepts (config validation, 1..65535)
MaxPort == 65535
\* part_001:85  options.httpPort || 8080
DefaultHttpPort == 8080
\* help.js:60  '$0 kill --port 9090', the second instance of the usage guide
AltHttpPort == 9090
\* watcher.js:38  watchOptions.debounceTime || 1000  (cli.js:161  default: 1000)
DefaultDebounceMs == 1000
\* help.js:69  '$0 watch --debounce-time 2000'
CustomDebounceMs == 2000

\* ------------------------------------------------------------ bounds
\* file-change events delivered to the watcher in one session
MaxChanges == 2
\* rebuild-cycle slots (the code never needs more than one at a time)
MaxConc == 2

\* one tick is one poll interval
TickMs == PollIntervalMs
PollTicks == PollIntervalMs \div TickMs

\* ports a session may be configured with (ConfigManager accepts 1..65535)
PortSamples == {DefaultHttpPort, MaxPort - DebugPortOffset + 1}

\* ------------------------------------------------------------ strings
\* A string is a sequence of tokens; a token is a record [k, v].
Sep == [k |-> "sep", v |-> 0]
UserDirective(n) == [k |-> "user", v |-> n]
PortDirective(port) == [k |-> "port", v |-> port]
StackDirective == [k |-> "stack", v |-> 0]

\* pre-existing values of the RHO environment variable ('' when unset)
RHOInputs == {<<>>, <<UserDirective(1)>>}

VARIABLES
    httpPort,       \* ConfigManager.config.httpPort
    originalRHO,    \* ProcessManager.originalRHO
    envRHO,         \* process.env['RHO'] (shell.env is process.env)
    exited,         \* the CLI process has called process.exit
    exitCode,       \* its exit code (-1 while running)
    failure,        \* the step whose failure ended the CLI process, and in which task
    watching,       \* chokidar watcher attached by Watcher.watchFiles
    timers,         \* pending debounce timers, remaining ticks, oldest first
    isProcessing,   \* Watcher.watchFiles: let isProcessing
    tasks,          \* async activations: 0 = runCommand, 1..MaxConc = timer callbacks
    starting,       \* spawned java processes that have not bound their ports yet
    serving,        \* the java process bound to the ports: none, up, terminating
    listeners,      \* ports held by unrelated processes
    changes,        \* change events delivered so far
    burst,          \* change events of the current burst
    started,        \* rebuild cycles started by the current burst
    skipped,        \* the burst's timer fired while a cycle was in progress
    quiet,          \* ticks since the last change event (up to DebounceTicks)
    timedOut,       \* a run call's poll window has elapsed without liveness
    reported,       \* what the last run call reported: none, running, failed
    status,         \* the `rh status` command: its position in isRunning, what its
                    \* two probes returned and met, what isRunning returned
                    \* (result) and the line status printed
    command,        \* runCommand: the command being run
    argv,           \* runCommand: argv.build, argv.port (0 when absent), argv['--']
    procs,          \* the OS process table psList reads, by pid
    killReport,     \* what the last checkAndKill did: outcome, pids signalled and failed
    invoked,        \* facade methods the command has invoked so far
    cwd,            \* process.cwd()
    repoDir,        \* ConfigManager.config.repoDir
    target,         \* repoDir/target: whether it exists, and the jars under it
    plugins,        \* jars in rhDir/plugins
    builderSeen,    \* cwd when build was called, plugins when deploy was called
    debounceTime,   \* Watcher.watchFiles: const debounceTime, in ms (0 before attach)
    sigint,         \* the SIGINT handler of initCLI: idle, probe, kill
    logged,         \* kinds of messages the logger has printed
    optionsTest,    \* one call of onlyPrintConfig: its argument and what it returned
    download        \* Installer: the artifact download of `rh install`

vars == <<httpPort, originalRHO, envRHO, exited, exitCode, failure,
          watching, timers, isProcessing, tasks, starting, serving, listeners,
          changes, burst, started, skipped, quiet, timedOut, reported, status,
          command, argv, procs, killReport, invoked,
          cwd, repoDir, target, plugins, builderSeen,
          debounceTime, sigint, logged, optionsTest, download>>

cmdVars == <<command, argv, procs, killReport, invoked>>
diskVars == <<cwd, repoDir, target, plugins, builderSeen>>
watcherVars == <<watching, debounceTime>>
uiVars == <<sigint, logged>>
standaloneVars == <<optionsTest, download>>
cfgVars == <<httpPort, originalRHO>>
osVars == <<starting, serving, listeners>>
burstVars == <<changes, burst, started, skipped>>
histVars == <<burstVars, quiet>>

TaskIds == 0 .. MaxConc
CycleIds == 1 .. MaxConc
CmdTask == 0

IdleTask == [pc |-> "idle", killPending |-> FALSE, timeout |-> 0, sleep |-> -1,
             probes |-> 0, spawns |-> 0, steps |-> <<>>]

\* no call of onlyPrintConfig under test
IdleOptionsTest == [pc |-> "idle", string |-> <<>>, result |-> FALSE]

\* no download in progress
IdleDownload == [pc |-> "idle", version |-> "none", url |-> "none", redirects |-> 0,
                 statusCode |-> 0, error |-> "none"]

NoLine == [text |-> "none", host |-> "none", port |-> 0]

IdleStatus == [pc |-> "idle", first |-> "none", second |-> "none",
               httpOpen |-> FALSE, debugOpen |-> FALSE, result |-> "none",
               line |-> NoLine]

StatusLine_Inverted(running, port) ==
    [text |-> IF running THEN "notRunning" ELSE "running",
     host |-> "localhost", port |-> port]

\* ProcessManager.status: logger.success('RESTHeart is running at localhost:' + httpPort)
\* when isRunning returned true, logger.warning('RESTHeart is not running at ...') else
StatusLine(running, port) ==
    [text |-> IF running THEN "running" ELSE "notRunning",
     host |-> "localhost", port |-> port]

\* ports `rh status` is asked about: both ends of the range ConfigManager accepts,
\* the default, and the two ports around MaxPort - DebugPortOffset
StatusPorts == {1, DefaultHttpPort, MaxPort - DebugPortOffset,
                MaxPort - DebugPortOffset + 1, MaxPort}

\* ------------------------------------------------------------ command line
Commands == {"build", "run", "kill", "watch"}

\* argv['--']: the trailing options, one token per element
OptionSamples == {<<>>, <<"-v">>, <<"-o", "conf.yml", "-t">>, <<"-vv", "--tc">>}

PrintOnlyFlags == {"-t", "-c", "-v"}

onlyPrintConfig_Never(restheartOptions) == FALSE

\* ProcessManager.onlyPrintConfig: the options joined by ' ' are tested against
\* /(\s|^)-t(\s|$)|(\s|^)-c(\s|$)|(\s|^)-v(\s|$)/, which matches exactly when
\* one whole token is a print-only flag
onlyPrintConfig(restheartOptions) ==
    \E i \in 1 .. Len(restheartOptions) : restheartOptions[i] \in PrintOnlyFlags

\* argv of a command line without options: --debounce-time has a yargs default
NoArgv == [build |-> FALSE, port |-> 0, options |-> <<>>,
           debounceTime |-> DefaultDebounceMs]

\* command lines: every combination of --build, --port and trailing options, the
\* line of the usage examples that gives --debounce-time, and lines with a port
\* on either side of the range ConfigManager accepts
ArgvSamples ==
    {[NoArgv EXCEPT !.build = b, !.port = p, !.options = o] :
        b \in BOOLEAN, p \in {0, AltHttpPort}, o \in OptionSamples}
    \cup {[NoArgv EXCEPT !.debounceTime = CustomDebounceMs]}
    \cup {[NoArgv EXCEPT !.port = p] : p \in {-1, MaxPort + 1}}

\* RESTHeartManager.watchFiles(restheartOptions) calls
\* this.watcher.watchFiles(restheartOptions): watchOptions is the default {}, whose
\* debounceTime is undefined (0 here)
FacadeWatchOptions(commandLine) == [debounceTime |-> 0]

\* Watcher.watchFiles: const debounceTime = watchOptions.debounceTime || 1000
DebounceTimeOf(watchOptions) ==
    IF watchOptions.debounceTime = 0 THEN DefaultDebounceMs
    ELSE watchOptions.debounceTime

\* ConfigManager.set: isNaN(value) || value < 1 || value > 65535 (argv.port is a
\* number: yargs type 'number')
InvalidPort(value) == value < 1 \/ value > MaxPort

SetHttpPort_Unchecked(current, value) == value

\* ConfigManager.set('httpPort', value): an invalid port is reported and ignored
SetHttpPort(current, value) ==
    IF InvalidPort(value) THEN current ELSE value

\* ------------------------------------------------------------ process table
Pids == {"p1", "p2", "p3"}

NoProc == [name |-> "none", cmd |-> "none", port |-> 0, state |-> "gone",
           killable |-> TRUE, signalled |-> FALSE]
\* a RESTHeart instance: java -jar .../restheart.jar, listening on port
Instance(port) == [NoProc EXCEPT !.name = "java", !.cmd = "restheart",
                                 !.port = port, !.state = "alive"]
\* another java server, and a node process whose command line names restheart
OtherJava(port) == [Instance(port) EXCEPT !.cmd = "other"]
NodeTool == [Instance(0) EXCEPT !.name = "node"]
\* process.kill(pid) throws for it (EPERM: it belongs to another user)
Foreign(proc) == [proc EXCEPT !.killable = FALSE]

NoProcs == [p \in Pids |-> NoProc]

\* process tables a command may meet
ProcTables ==
    { NoProcs,
      [NoProcs EXCEPT !["p1"] = Instance(DefaultHttpPort)],
      [NoProcs EXCEPT !["p1"] = Instance(DefaultHttpPort),
                      !["p2"] = Instance(AltHttpPort)],
      [NoProcs EXCEPT !["p1"] = Instance(DefaultHttpPort),
                      !["p2"] = Foreign(Instance(0)),
                      !["p3"] = Instance(AltHttpPort)],
      [NoProcs EXCEPT !["p1"] = OtherJava(DefaultHttpPort),
                      !["p2"] = NodeTool],
      [NoProcs EXCEPT !["p1"] = Instance(DefaultHttpPort),
                      !["p2"] = NodeTool,
                      !["p3"] = OtherJava(AltHttpPort)] }

KillFilter_NameOnly(proc) == proc.name = "java"
KillFilter_CmdOnly(proc) == proc.cmd = "restheart"

\* ProcessManager.kill: proc.name === 'java' && proc.cmd.includes('restheart')
KillFilter(proc) == proc.name = "java" /\ proc.cmd = "restheart"

\* what the last kill call did: how it ended, how many process.kill calls it made,
\* the pids signalled and the pids whose signalling threw; and the number of
\* `rh kill` invocations before this one
IdleKillReport == [outcome |-> "none", sent |-> {}, failed |-> {}, calls |-> 0,
                   tried |-> 0]

\* ------------------------------------------------------------ disk
Dirs == {"project", "home"}
ConfigRepoDir_Fixed(dir) == "project"

\* ConfigManager constructor: const repoDir = process.cwd()
ConfigRepoDir(dir) == dir

JarSets == SUBSET {"main", "lib"}
NoTarget == [exists |-> FALSE, jars |-> {}]
TargetStates == {NoTarget} \cup {[exists |-> TRUE, jars |-> j] : j \in JarSets}
\* what the last build and deploy met and did: the directory build was called from,
\* whether repoDir/mvnw existed, whether `which mvn` found mvn when it was asked,
\* the maven command that was executed and how it ended, how build and deploy
\* ended, and the plugins directory when deploy was called
IdleBuilder == [callerDir |-> "none", pluginsBefore |-> {}, built |-> "none",
                deployed |-> "none", wrapper |-> "none", mvnFound |-> FALSE,
                ran |-> "none", mvnExit |-> "none"]

\* ------------------------------------------------------------ liveness probe
\* ports the serving java process holds: the HTTP listener and the JDWP agent
ServedPorts(port) ==
    {port} \cup (IF port + DebugPortOffset <= MaxPort THEN {port + DebugPortOffset} ELSE {})

TablePorts ==
    UNION {ServedPorts(procs[p].port) :
             p \in {q \in Pids : procs[q].state # "gone" /\ procs[q].port # 0}}

Listening ==
    listeners \cup TablePorts
              \cup (IF serving # "none" THEN ServedPorts(httpPort) ELSE {})

\* utils.js checkPort: net.createConnection({ port }) throws synchronously
\* (ERR_SOCKET_BAD_PORT) for a port outside 0..65535, which rejects the promise;
\* otherwise it resolves true on connect and false on 'error'.
checkPort(port, open) ==
    IF port < 0 \/ port > MaxPort THEN "throw"
    ELSE IF port \in open THEN "true" ELSE "false"

\* ProcessManager.isRunning: both probes inside one try; the catch logs with
\* exitProcess: false and returns false.
isRunningResult(isRunningOnHttpPort, isRunningOnHttpPortPlus1000) ==
    IF isRunningOnHttpPort = "throw" \/ isRunningOnHttpPortPlus1000 = "throw"
    THEN FALSE
    ELSE isRunningOnHttpPort = "true" \/ isRunningOnHttpPortPlus1000 = "true"

\* isRunning with both probes meeting the same set of open ports
isRunningOn(port, open) ==
    isRunningResult(checkPort(port, open), checkPort(port + DebugPortOffset, open))

isRunning == isRunningOn(httpPort, Listening)

\* ------------------------------------------------------------ environment merge
\* ProcessManager.run: const extra = `/http-listner/port->${httpPort};/logging/full-stacktrace->true;`
Extra(port) == <<PortDirective(port), Sep, StackDirective, Sep>>

MergeRHO_Reread(base, current, port) ==
    IF current # <<>> THEN current \o <<Sep>> \o Extra(port) ELSE Extra(port)

\* ProcessManager.run: this.originalRHO ? `${this.originalRHO};${extra}` : extra
MergeRHO(base, current, port) ==
    IF base # <<>> THEN base \o <<Sep>> \o Extra(port) ELSE Extra(port)

\* ------------------------------------------------------------ error handler
BuildErrorOptions_NoExit == [exitProcess |-> FALSE, exitCode |-> 1]
\* ErrorHandler.handleError: logs, then process.exit(exitCode) if exitProcess
BuildErrorOptions == [exitProcess |-> TRUE, exitCode |-> 1]
DeployErrorOptions == [exitProcess |-> TRUE, exitCode |-> 1]
RunErrorOptions_NoExit == [exitProcess |-> FALSE, exitCode |-> 1]
\* ProcessManager.run: processError('RESTHeart failed to start', { exitProcess: true })
RunErrorOptions == [exitProcess |-> TRUE, exitCode |-> 1]
\* ProcessManager.run: fileSystemError('RESTHeart jar not found', { exitProcess: true })
PrecheckErrorOptions == [exitProcess |-> TRUE, exitCode |-> 1]
CommandNotFoundOptions_NoExit == [exitProcess |-> FALSE, exitCode |-> 1]
\* utils.js commandExists: commandNotFound(command, { exitProcess: true })
CommandNotFoundOptions == [exitProcess |-> TRUE, exitCode |-> 1]
KillErrorOptions == [exitProcess |-> FALSE, exitCode |-> 1]
WatcherErrorOptions_Exit == [exitProcess |-> TRUE, exitCode |-> 1]
\* Watcher.watchFiles, watcher.on('error'): processError(..., { exitProcess: false })
WatcherErrorOptions == [exitProcess |-> FALSE, exitCode |-> 1]

Fail(step, t) == [step |-> step, task |-> t]

\* ------------------------------------------------------------ event loop
DebounceTicks_Short == debounceTime \div TickMs - 1

\* setTimeout(..., debounceTime) of the attached watcher, in ticks
DebounceTicks == debounceTime \div TickMs

SyncPcs == {"build", "deploy", "run"}
LoopFree == \A t \in TaskIds : tasks[t].pc \notin SyncPcs
TimerDue_Never == FALSE

\* the oldest pending debounce timer has run out: its callback is due
TimerDue == timers # <<>> /\ Head(timers) = 0
SleepDue == \E t \in TaskIds : tasks[t].pc = "poll" /\ tasks[t].sleep = 0

\* `rh watch` without options (the pre-steps of `rh watch --build` are explored
\* with the one-shot commands)
Init ==
    /\ httpPort \in PortSamples
    /\ originalRHO \in RHOInputs
    /\ envRHO = originalRHO
    /\ exited = FALSE
    /\ exitCode = -1
    /\ failure = Fail("none", -1)
    /\ watching = FALSE
    /\ timers = <<>>
    /\ isProcessing = FALSE
    /\ tasks = [t \in TaskIds |->
                  IF t = CmdTask THEN [IdleTask EXCEPT !.pc = "probe"] ELSE IdleTask]
    /\ starting = 0
    /\ serving \in {"none", "up"}
    /\ listeners = {}
    /\ changes = 0
    /\ burst = 0
    /\ started = 0
    /\ skipped = FALSE
    /\ quiet = 0
    /\ timedOut = FALSE
    /\ reported = "none"
    /\ status = IdleStatus
    /\ command = "watch"
    /\ argv = NoArgv
    /\ procs = NoProcs
    /\ killReport = IdleKillReport
    /\ invoked = {}
    /\ cwd = "project"
    /\ repoDir = ConfigRepoDir(cwd)
    /\ target = NoTarget
    /\ plugins = {}
    /\ builderSeen = IdleBuilder
    /\ debounceTime = 0
    /\ sigint = "idle"
    /\ logged = {}
    /\ optionsTest = IdleOptionsTest
    /\ download = IdleDownload
\* ------------------------------------------------------------ task steps
Log(t, e) == Append(tasks[t].steps, e)

\* where a task goes once its stop step is over (or was not needed):
\* runCommand('watch') builds only with --build, a rebuild cycle always builds
AfterStop(t, argvBuild) == IF t = CmdTask /\ ~argvBuild THEN "run" ELSE "build"

PcAfterKillCall_NoAwait(t, argvBuild) == AfterStop(t, argvBuild)

\* `await this.processManager.kill()`: the caller stays suspended in kill
PcAfterKillCall(t, argvBuild) == "kill"

ExitProcess(options, step, t) ==
    /\ exited' = TRUE
    /\ exitCode' = options.exitCode
    /\ failure' = Fail(step, t)

\* `if (await this.processManager.isRunning())` of checkAndKill and of the timer
\* callback resumes: kill() is called when the probe says running.
ProbeResume(t) ==
    /\ ~exited /\ LoopFree
    /\ tasks[t].pc = "probe"
    /\ IF isRunning
       THEN tasks' = [tasks EXCEPT ![t].pc = PcAfterKillCall(t, argv.build),
                                   ![t].killPending = TRUE,
                                   ![t].steps = Log(t, "stop")]
       ELSE tasks' = [tasks EXCEPT ![t].pc = AfterStop(t, argv.build)]
    /\ UNCHANGED <<cfgVars, status, uiVars, standaloneVars,
                   cmdVars, diskVars, envRHO, exited, exitCode, failure, watcherVars, timers,
                   isProcessing, osVars, histVars, timedOut, reported>>

\* ProcessManager.kill resumes from `await psList()`: SIGTERM to every java process
\* whose command line contains 'restheart'; a psList failure is caught and logged.
KillResume(t) ==
    /\ ~exited /\ LoopFree
    /\ tasks[t].killPending
    /\ \E psOk \in BOOLEAN :
         IF psOk
         THEN /\ starting' = 0
              /\ serving' = IF serving = "up" THEN "terminating" ELSE serving
              /\ UNCHANGED <<exited, exitCode, failure>>
         ELSE /\ UNCHANGED <<starting, serving>>
              /\ IF KillErrorOptions.exitProcess
                 THEN ExitProcess(KillErrorOptions, "stop", t)
                 ELSE UNCHANGED <<exited, exitCode, failure>>
    /\ tasks' = [tasks EXCEPT ![t].killPending = FALSE,
                              ![t].steps = Log(t, "stopped"),
                              ![t].pc = IF @ = "kill" THEN AfterStop(t, argv.build)
                                        ELSE @]
    /\ UNCHANGED <<cfgVars, status, uiVars, standaloneVars,
                   cmdVars, diskVars, envRHO, watcherVars, timers, isProcessing, listeners,
                   histVars, timedOut, reported>>

\* Builder.build: synchronous maven run; a failure is handled inside build
Build(t) ==
    /\ ~exited
    /\ tasks[t].pc = "build"
    /\ \E ok \in BOOLEAN :
         IF ok
         THEN /\ tasks' = [tasks EXCEPT ![t].pc = "deploy",
                                        ![t].steps = Log(t, "build") \o <<"built">>]
              /\ UNCHANGED <<exited, exitCode, failure>>
         ELSE IF BuildErrorOptions.exitProcess
              THEN /\ ExitProcess(BuildErrorOptions, "build", t)
                   /\ tasks' = [tasks EXCEPT ![t].steps = Log(t, "build")]
              ELSE /\ tasks' = [tasks EXCEPT ![t].pc = "deploy",
                                             ![t].steps = Log(t, "build")]
                   /\ UNCHANGED <<exited, exitCode, failure>>
    /\ UNCHANGED <<cfgVars, status, uiVars, standaloneVars,
                   cmdVars, diskVars, envRHO, watcherVars, timers, isProcessing, osVars,
                   histVars, timedOut, reported>>

\* Builder.deploy: synchronous copy of the jars; a failure is handled inside deploy
Deploy(t) ==
    /\ ~exited
    /\ tasks[t].pc = "deploy"
    /\ \E ok \in BOOLEAN :
         IF ok
         THEN /\ tasks' = [tasks EXCEPT ![t].pc = "run",
                                        ![t].steps = Log(t, "deploy") \o <<"deployed">>]
              /\ UNCHANGED <<exited, exitCode, failure>>
         ELSE IF DeployErrorOptions.exitProcess
              THEN /\ ExitProcess(DeployErrorOptions, "deploy", t)
                   /\ tasks' = [tasks EXCEPT ![t].steps = Log(t, "deploy")]
              ELSE /\ tasks' = [tasks EXCEPT ![t].pc = "run",
                                             ![t].steps = Log(t, "deploy")]
                   /\ UNCHANGED <<exited, exitCode, failure>>
    /\ UNCHANGED <<cfgVars, status, uiVars, standaloneVars,
                   cmdVars, diskVars, envRHO, watcherVars, timers, isProcessing, osVars,
                   histVars, timedOut, reported>>
PollContinue_Inclusive(timeout) == timeout >= 0

\* while (timeout > 0) of the poll loop in ProcessManager.run
PollContinue(timeout) == timeout > 0

\* the task is over: runCommand('watch') attaches the watcher, the timer callback
\* clears isProcessing in its finally block
Finish(t) ==
    /\ tasks' = [tasks EXCEPT ![t] = IdleTask]
    /\ watching' = IF t = CmdTask /\ command = "watch" THEN TRUE ELSE watching
    /\ debounceTime' = IF t = CmdTask /\ command = "watch"
                       THEN DebounceTimeOf(FacadeWatchOptions(argv))
                       ELSE debounceTime
    /\ isProcessing' = IF t = CmdTask THEN isProcessing ELSE FALSE

\* ProcessManager.run up to its first await: the java check, the print-only
\* short-circuit (a synchronous java run, then return), the jar check, the RHO
\* merge, the detached spawn, and the first sleep of the poll loop
RunSpawn(t) ==
    /\ ~exited
    /\ tasks[t].pc = "run"
    /\ \E pre \in {"ok", "nojava", "nojar"} :
         LET noted == IF pre = "ok" THEN failure ELSE Fail(pre, t)
         IN  IF pre = "nojava" /\ CommandNotFoundOptions.exitProcess
             THEN /\ ExitProcess(CommandNotFoundOptions, pre, t)
                  /\ UNCHANGED <<envRHO, starting, tasks, watcherVars, isProcessing,
                                 reported>>
             ELSE IF onlyPrintConfig(argv.options)
             THEN /\ Finish(t)
                  /\ reported' = "printed"
                  /\ failure' = IF pre = "nojava" THEN noted ELSE failure
                  /\ UNCHANGED <<envRHO, starting, exited, exitCode>>
             ELSE IF pre = "nojar" /\ PrecheckErrorOptions.exitProcess
             THEN /\ ExitProcess(PrecheckErrorOptions, pre, t)
                  /\ UNCHANGED <<envRHO, starting, tasks, watcherVars, isProcessing,
                                 reported>>
             ELSE /\ envRHO' = MergeRHO(originalRHO, envRHO, httpPort)
                  /\ starting' = starting + 1
                  /\ tasks' = [tasks EXCEPT ![t].pc = "poll",
                                            ![t].timeout = PollAttempts,
                                            ![t].sleep = PollTicks,
                                            ![t].probes = 0,
                                            ![t].spawns = @ + 1,
                                            ![t].steps = Log(t, "start")]
                  /\ failure' = noted
                  /\ UNCHANGED <<exited, exitCode, watcherVars, isProcessing, reported>>
    /\ UNCHANGED <<cfgVars, status, uiVars, standaloneVars,
                   cmdVars, diskVars, timers, serving, listeners,
                   histVars, timedOut>>

\* the poll loop wakes from its sleep and probes once
PollWake(t) ==
    /\ ~exited /\ LoopFree
    /\ tasks[t].pc = "poll" /\ tasks[t].sleep = 0
    /\ LET n == tasks[t].probes + 1
           left == tasks[t].timeout - 1
       IN  IF isRunning
           THEN /\ Finish(t)
                /\ reported' = "running"
                /\ UNCHANGED <<exited, exitCode, failure, timedOut>>
           ELSE IF PollContinue(left)
           THEN /\ tasks' = [tasks EXCEPT ![t].timeout = left, ![t].sleep = PollTicks,
                                          ![t].probes = n]
                /\ UNCHANGED <<exited, exitCode, failure, watcherVars, isProcessing,
                               timedOut, reported>>
           ELSE IF RunErrorOptions.exitProcess
           THEN /\ ExitProcess(RunErrorOptions, "start", t)
                /\ tasks' = [tasks EXCEPT ![t].pc = "failed", ![t].timeout = left,
                                          ![t].probes = n]
                /\ timedOut' = TRUE
                /\ reported' = "failed"
                /\ UNCHANGED <<watcherVars, isProcessing>>
           ELSE /\ Finish(t)
                /\ timedOut' = TRUE
                /\ reported' = "running"
                /\ UNCHANGED <<exited, exitCode, failure>>
    /\ UNCHANGED <<cfgVars, status, uiVars, standaloneVars,
                   cmdVars, diskVars, envRHO, timers, osVars, histVars>>

\* ------------------------------------------------------------ watcher
ClearTimeout_Noop(ts) == ts

\* clearTimeout(debounceTimeoutId): the handle names the timer armed last, which is
\* pending exactly when any timer is (equal delays fire in arming order)
ClearTimeout(ts) == IF ts = <<>> THEN ts ELSE SubSeq(ts, 1, Len(ts) - 1)

\* watcher.on('change'): reset the debounce timer
ChangeEvent ==
    /\ ~exited /\ LoopFree /\ watching
    /\ ~TimerDue
    /\ changes < MaxChanges
    /\ timers' = Append(ClearTimeout(timers), DebounceTicks)
    /\ changes' = changes + 1
    /\ burst' = IF timers = <<>> THEN 1 ELSE burst + 1
    /\ started' = IF timers = <<>> THEN 0 ELSE started
    /\ skipped' = IF timers = <<>> THEN FALSE ELSE skipped
    /\ quiet' = 0
    /\ UNCHANGED <<cfgVars, status, uiVars, standaloneVars,
                   cmdVars, diskVars, envRHO, exited, exitCode, failure, watcherVars,
                   isProcessing, tasks, osVars, timedOut, reported>>

SkipFire_Never == FALSE

\* `if (isProcessing) return` of the timer callback
SkipFire == isProcessing

FreeSlots == {s \in CycleIds : tasks[s].pc = "idle" /\ ~tasks[s].killPending}

\* the debounce timer fires: skip, or set isProcessing and call isRunning
TimerFire ==
    /\ ~exited /\ LoopFree
    /\ TimerDue
    /\ timers' = Tail(timers)
    /\ IF SkipFire
       THEN /\ skipped' = TRUE
            /\ UNCHANGED <<isProcessing, tasks, started>>
       ELSE /\ FreeSlots # {}
            /\ LET s == CHOOSE x \in FreeSlots : \A y \in FreeSlots : x <= y
               IN  tasks' = [tasks EXCEPT ![s] = [IdleTask EXCEPT !.pc = "probe"]]
            /\ isProcessing' = TRUE
            /\ started' = started + 1
            /\ UNCHANGED skipped
    /\ UNCHANGED <<cfgVars, status, uiVars, standaloneVars,
                   cmdVars, diskVars, envRHO, exited, exitCode, failure, watcherVars, osVars,
                   changes, burst, quiet, timedOut, reported>>

\* ------------------------------------------------------------ clock and OS
Dec(n) == IF n > 0 THEN n - 1 ELSE n

\* one poll interval passes; a due timer fires before more time passes unless a
\* synchronous step (a maven build, a copy) is holding the event loop
Tick ==
    /\ ~exited
    /\ ~(LoopFree /\ (TimerDue \/ SleepDue))
    /\ timers' = [i \in 1 .. Len(timers) |-> Dec(timers[i])]
    /\ tasks' = [t \in TaskIds |-> [tasks[t] EXCEPT !.sleep = Dec(@)]]
    /\ quiet' = IF watching /\ changes > 0 /\ quiet < DebounceTicks
                 THEN quiet + 1 ELSE quiet
    /\ <<timers', tasks', quiet'>> # <<timers, tasks, quiet>>
    /\ UNCHANGED <<cfgVars, status, uiVars, standaloneVars,
                   cmdVars, diskVars, envRHO, exited, exitCode, failure, watcherVars,
                   isProcessing, osVars, burstVars, timedOut, reported>>

\* a spawned java process binds its ports once they are free
ProcBind ==
    /\ ~exited
    /\ starting > 0 /\ serving = "none"
    /\ ServedPorts(httpPort) \cap (listeners \cup TablePorts) = {}
    /\ starting' = starting - 1
    /\ serving' = "up"
    /\ UNCHANGED <<cfgVars, status, uiVars, standaloneVars,
                   cmdVars, diskVars, envRHO, exited, exitCode, failure, watcherVars, timers,
                   isProcessing, tasks, listeners, histVars, timedOut, reported>>

\* a spawned java process dies before serving (port in use, bad configuration)
ProcFail ==
    /\ ~exited
    /\ starting > 0
    /\ starting' = starting - 1
    /\ UNCHANGED <<cfgVars, status, uiVars, standaloneVars,
                   cmdVars, diskVars, envRHO, exited, exitCode, failure, watcherVars, timers,
                   isProcessing, tasks, serving, listeners, histVars, timedOut,
                   reported>>

\* the serving java process exits (after SIGTERM, or on its own)
ProcExit ==
    /\ ~exited
    /\ serving # "none"
    /\ serving' = "none"
    /\ UNCHANGED <<cfgVars, status, uiVars, standaloneVars,
                   cmdVars, diskVars, envRHO, exited, exitCode, failure, watcherVars, timers,
                   isProcessing, tasks, starting, listeners, histVars, timedOut,
                   reported>>

Next ==
    \/ \E t \in TaskIds : ProbeResume(t)
    \/ \E t \in TaskIds : KillResume(t)
    \/ \E t \in TaskIds : Build(t)
    \/ \E t \in TaskIds : Deploy(t)
    \/ \E t \in TaskIds : RunSpawn(t)
    \/ \E t \in TaskIds : PollWake(t)
    \/ ChangeEvent
    \/ TimerFire
    \/ Tick
    \/ ProcBind
    \/ ProcFail
    \/ ProcExit

Spec == Init /\ [][Next]_vars

\* the clock advances, and the event loop runs a due timer callback and resumes a
\* task whose sleep is over
FairSpec ==
    /\ Spec
    /\ WF_vars(Tick)
    /\ WF_vars(TimerFire)
    /\ \A t \in TaskIds : WF_vars(PollWake(t))
\* FairSpec, and every step of a task is eventually taken: awaits settle, maven
\* and the copies return
FairSpecSteps ==
    /\ FairSpec
    /\ \A t \in TaskIds :
          /\ WF_vars(ProbeResume(t))
          /\ WF_vars(KillResume(t))
          /\ WF_vars(Build(t))
          /\ WF_vars(Deploy(t))
          /\ WF_vars(RunSpawn(t))

\* ------------------------------------------------------------ signals and errors
\* A watch session that also receives SIGINT (CTRL-C) and error events of the
\* chokidar watcher.

\* process.on('SIGINT'): the handler starts, calls rh.isRunning() and is suspended
Sigint ==
    /\ ~exited /\ LoopFree
    /\ sigint = "idle"
    /\ sigint' = "probe"
    /\ UNCHANGED <<cfgVars, status, logged, standaloneVars,
                   cmdVars, diskVars, envRHO, exited, exitCode,
                   failure, watcherVars, timers, isProcessing, tasks, osVars, histVars,
                   timedOut, reported>>

\* the handler resumes from `await rh.isRunning()`: kill() is called when the probe
\* says running, otherwise process.exit(0)
SigintProbe ==
    /\ ~exited /\ LoopFree
    /\ sigint = "probe"
    /\ IF isRunning
       THEN /\ sigint' = "kill"
            /\ UNCHANGED <<exited, exitCode>>
       ELSE /\ sigint' = "exit"
            /\ exited' = TRUE
            /\ exitCode' = 0
    /\ UNCHANGED <<cfgVars, status, logged, standaloneVars, cmdVars, diskVars, envRHO, failure,
                   watcherVars, timers, isProcessing, tasks, osVars, histVars,
                   timedOut, reported>>

\* the handler resumes from `await rh.kill()` (kill from `await psList()`): SIGTERM
\* to the matching java processes unless psList failed, then process.exit(0)
SigintKill ==
    /\ ~exited /\ LoopFree
    /\ sigint = "kill"
    /\ \E psOk \in BOOLEAN :
         IF psOk
         THEN /\ starting' = 0
              /\ serving' = IF serving = "up" THEN "terminating" ELSE serving
         ELSE UNCHANGED <<starting, serving>>
    /\ sigint' = "exit"
    /\ exited' = TRUE
    /\ exitCode' = 0
    /\ UNCHANGED <<cfgVars, status, logged, standaloneVars, cmdVars, diskVars, envRHO, failure,
                   watcherVars, timers, isProcessing, tasks, listeners, histVars,
                   timedOut, reported>>

\* watcher.on('error'): the error is logged through ErrorHandler.processError
WatcherError ==
    /\ ~exited /\ LoopFree
    /\ watching
    /\ logged' = logged \cup {"watcherError"}
    /\ IF WatcherErrorOptions.exitProcess
       THEN ExitProcess(WatcherErrorOptions, "watcher", -1)
       ELSE UNCHANGED <<exited, exitCode, failure>>
    /\ UNCHANGED <<cfgVars, status, sigint, standaloneVars,
                   cmdVars, diskVars, envRHO, watcherVars,
                   timers, isProcessing, tasks, osVars, histVars, timedOut, reported>>

NextEvents ==
    \/ Next
    \/ Sigint
    \/ SigintProbe
    \/ SigintKill
    \/ WatcherError

SpecEvents == Init /\ [][NextEvents]_vars

\* ------------------------------------------------------------ rh status
\* One-shot `rh status` invocations against a machine where the managed process and
\* other listeners come and go: no watch session, every task idle.
sessionVars == <<envRHO, exited, exitCode, failure, watcherVars, timers,
                 isProcessing, tasks, starting, histVars, timedOut, reported,
                 cmdVars, diskVars, uiVars, standaloneVars>>

InitStatus ==
    /\ httpPort \in StatusPorts
    /\ originalRHO \in RHOInputs
    /\ envRHO = originalRHO
    /\ exited = FALSE
    /\ exitCode = -1
    /\ failure = Fail("none", -1)
    /\ watching = FALSE
    /\ timers = <<>>
    /\ isProcessing = FALSE
    /\ tasks = [t \in TaskIds |-> IdleTask]
    /\ starting = 0
    /\ serving \in {"none", "up"}
    /\ listeners \in SUBSET ServedPorts(httpPort)
    /\ changes = 0
    /\ burst = 0
    /\ started = 0
    /\ skipped = FALSE
    /\ quiet = 0
    /\ timedOut = FALSE
    /\ reported = "none"
    /\ status = IdleStatus
    /\ command = "status"
    /\ argv = NoArgv
    /\ procs = NoProcs
    /\ killReport = IdleKillReport
    /\ invoked = {}
    /\ cwd = "project"
    /\ repoDir = ConfigRepoDir(cwd)
    /\ target = NoTarget
    /\ plugins = {}
    /\ builderSeen = IdleBuilder
    /\ debounceTime = 0
    /\ sigint = "idle"
    /\ logged = {}
    /\ optionsTest = IdleOptionsTest
    /\ download = IdleDownload

\* ProcessManager.status calls isRunning, which reads httpPort and calls checkPort
StatusCall ==
    /\ status.pc = "idle"
    /\ status' = [IdleStatus EXCEPT !.pc = "probe1"]
    /\ UNCHANGED <<cfgVars, osVars, sessionVars>>

\* `await checkPort(httpPort)` settles, and checkPort(httpPort + 1000) is called
StatusProbe1 ==
    /\ status.pc = "probe1"
    /\ LET r == checkPort(httpPort, Listening)
       IN  status' = IF r = "throw"
                     THEN [status EXCEPT !.pc = "idle", !.first = r,
                                         !.result = "notRunning",
                                         !.line = StatusLine(FALSE, httpPort)]
                     ELSE [status EXCEPT !.pc = "probe2", !.first = r,
                                         !.httpOpen = httpPort \in Listening]
    /\ UNCHANGED <<cfgVars, osVars, sessionVars>>

\* `await checkPort(httpPort + 1000)` settles or rejects; isRunning returns and
\* status prints its line
StatusProbe2 ==
    /\ status.pc = "probe2"
    /\ LET r == checkPort(httpPort + DebugPortOffset, Listening)
       IN  status' = [status EXCEPT
                        !.pc = "idle",
                        !.second = r,
                        !.debugOpen = (httpPort + DebugPortOffset) \in Listening,
                        !.result = IF isRunningResult(status.first, r)
                                   THEN "running" ELSE "notRunning",
                        !.line = StatusLine(isRunningResult(status.first, r),
                                            httpPort)]
    /\ UNCHANGED <<cfgVars, osVars, sessionVars>>

\* an unrelated process binds one of the probed ports
ListenerBind ==
    /\ \E p \in ServedPorts(httpPort) \ Listening : listeners' = listeners \cup {p}
    /\ UNCHANGED <<cfgVars, status, uiVars, standaloneVars, starting, serving, sessionVars>>

\* an unrelated process closes its listener
ListenerClose ==
    /\ \E p \in listeners : listeners' = listeners \ {p}
    /\ UNCHANGED <<cfgVars, status, uiVars, standaloneVars, starting, serving, sessionVars>>

NextStatus ==
    \/ StatusCall
    \/ StatusProbe1
    \/ StatusProbe2
    \/ ListenerBind
    \/ ListenerClose
    \/ ProcExit

SpecStatus == InitStatus /\ [][NextStatus]_vars

\* ------------------------------------------------------------ one-shot commands
\* One CLI invocation of build, run, kill or watch (up to the point where watch
\* attaches its watcher), against a machine with other processes in its table.
\* bound: invocations of `rh kill` in a row
MaxKillCalls == 2

PidIndex(p) == IF p = "p1" THEN 1 ELSE IF p = "p2" THEN 2 ELSE 3

InitCmd ==
    /\ httpPort = DefaultHttpPort
    /\ originalRHO = <<UserDirective(1)>>
    /\ envRHO = originalRHO
    /\ exited = FALSE
    /\ exitCode = -1
    /\ failure = Fail("none", -1)
    /\ watching = FALSE
    /\ timers = <<>>
    /\ isProcessing = FALSE
    /\ tasks = [t \in TaskIds |->
                  IF t = CmdTask THEN [IdleTask EXCEPT !.pc = "start"] ELSE IdleTask]
    /\ starting = 0
    /\ serving = "none"
    /\ listeners = {}
    /\ changes = 0
    /\ burst = 0
    /\ started = 0
    /\ skipped = FALSE
    /\ quiet = 0
    /\ timedOut = FALSE
    /\ reported = "none"
    /\ status = IdleStatus
    /\ command \in Commands
    /\ argv \in ArgvSamples
    /\ argv.debounceTime # DefaultDebounceMs => command = "watch"
    /\ procs \in ProcTables
    /\ killReport = IdleKillReport
    /\ invoked = {}
    /\ cwd \in Dirs
    /\ repoDir = ConfigRepoDir(cwd)
    /\ target = [exists |-> TRUE, jars |-> {"main"}]
    /\ plugins = {"old"}
    /\ builderSeen = IdleBuilder
    /\ debounceTime = 0
    /\ sigint = "idle"
    /\ logged = {}
    /\ optionsTest = IdleOptionsTest
    /\ download = IdleDownload

\* where runCommand goes after `await rh.checkAndKill()`
AfterCheckAndKill_AlwaysBuild ==
    IF command = "kill" THEN "done" ELSE "build"

AfterCheckAndKill ==
    IF command = "kill" THEN "done"
    ELSE IF argv.build THEN "build" ELSE "run"

CheckAndKillBranch_AlwaysKill(running) == "kill"

\* ProcessManager.checkAndKill: if (await this.isRunning()) { await this.kill() }
\* else { logger.warning('RESTHeart is not running: nothing to kill') }
CheckAndKillBranch(running) == IF running THEN "kill" ELSE "notRunning"

\* runCommand up to its first call: argv.port is applied, the command is selected
CmdDispatch ==
    /\ ~exited
    /\ tasks[CmdTask].pc = "start"
    /\ httpPort' = IF argv.port # 0 THEN SetHttpPort(httpPort, argv.port) ELSE httpPort
    /\ logged' = IF argv.port # 0 /\ InvalidPort(argv.port)
                 THEN logged \cup {"configError"} ELSE logged
    /\ tasks' = [tasks EXCEPT ![CmdTask].pc =
                    IF command = "build" THEN "build"
                    ELSE IF command = "run" /\ onlyPrintConfig(argv.options) THEN "run"
                    ELSE "probe"]
    /\ UNCHANGED <<originalRHO, status, sigint, standaloneVars,
                   cmdVars, diskVars, envRHO, exited, exitCode,
                   failure, watcherVars, timers, isProcessing, osVars, histVars,
                   timedOut, reported>>

\* ProcessManager.checkAndKill resumes from `await this.isRunning()`
CmdProbe ==
    /\ ~exited
    /\ tasks[CmdTask].pc = "probe"
    /\ invoked' = invoked \cup {"checkAndKill"}
    /\ IF CheckAndKillBranch(isRunning) = "kill"
       THEN /\ tasks' = [tasks EXCEPT ![CmdTask].pc = "kill",
                                      ![CmdTask].steps = Log(CmdTask, "stop")]
            /\ UNCHANGED <<killReport, watcherVars, isProcessing>>
       ELSE /\ killReport' = [killReport EXCEPT !.outcome = "notRunning"]
            /\ IF AfterCheckAndKill = "done"
               THEN Finish(CmdTask)
               ELSE /\ tasks' = [tasks EXCEPT ![CmdTask].pc = AfterCheckAndKill]
                    /\ UNCHANGED <<watcherVars, isProcessing>>
    /\ UNCHANGED <<cfgVars, status, uiVars, standaloneVars,
                   command, argv, procs, diskVars, envRHO, exited,
                   exitCode, failure, timers, osVars, histVars, timedOut, reported>>

PidSeq == <<"p1", "p2", "p3">>
KeepLive(p) == procs[p].state # "gone"
KeepFiltered(p) == KillFilter(procs[p])

\* `await psList()`: one entry per process of the table
PsList == SelectSeq(PidSeq, KeepLive)

\* processes.filter(proc => proc.name === 'java' && proc.cmd.includes('restheart'))
FilteredProcesses == SelectSeq(PsList, KeepFiltered)

Matching == {FilteredProcesses[i] : i \in 1 .. Len(FilteredProcesses)}

SignalTargets_AbortOnThrow(matches) ==
    {p \in matches :
       \A q \in matches : ~procs[q].killable => PidIndex(p) < PidIndex(q)}

\* the for loop of ProcessManager.kill: process.kill(pid, 'SIGTERM') inside its own
\* try/catch, so every match is tried; the ones that do not throw are signalled
SignalTargets(matches) == {p \in matches : procs[p].killable}

\* ProcessManager.kill resumes from `await psList()`: filter, signal, report
CmdKill ==
    /\ ~exited
    /\ tasks[CmdTask].pc = "kill"
    /\ invoked' = invoked \cup {"kill"}
    /\ \E psOk \in BOOLEAN :
         IF psOk
         THEN LET sent == SignalTargets(Matching)
              IN  /\ procs' = [p \in Pids |->
                                 IF p \in sent
                                 THEN [procs[p] EXCEPT !.state = "terminating",
                                                       !.signalled = TRUE]
                                 ELSE procs[p]]
                  /\ killReport' =
                       [killReport EXCEPT
                          !.outcome = IF Matching = {} THEN "notFound" ELSE "signalled",
                          !.sent = sent,
                          !.failed = Matching \ sent,
                          !.tried = Len(FilteredProcesses)]
                  /\ UNCHANGED <<exited, exitCode, failure>>
         ELSE /\ killReport' = [killReport EXCEPT !.outcome = "error"]
              /\ UNCHANGED procs
              /\ IF KillErrorOptions.exitProcess
                 THEN ExitProcess(KillErrorOptions, "stop", CmdTask)
                 ELSE UNCHANGED <<exited, exitCode, failure>>
    /\ IF AfterCheckAndKill = "done"
       THEN Finish(CmdTask)
       ELSE /\ tasks' = [tasks EXCEPT ![CmdTask].pc = AfterCheckAndKill,
                                      ![CmdTask].steps = Log(CmdTask, "stopped")]
            /\ UNCHANGED <<watcherVars, isProcessing>>
    /\ UNCHANGED <<cfgVars, status, uiVars, standaloneVars,
                   command, argv, diskVars, envRHO, timers, osVars,
                   histVars, timedOut, reported>>

MvnCommand_WrapperOnly(mvnwExists, mvnwFound, mvnInstalled) ==
    IF mvnwExists /\ mvnwFound THEN "./mvnw" ELSE "exit"

\* Builder.build: ./mvnw when repoDir/mvnw exists and `which` finds it, mvn when
\* mvnw is absent; commandExists ends the process when its command is missing
MvnCommand(mvnwExists, mvnwFound, mvnInstalled) ==
    IF ~mvnwExists
    THEN IF mvnInstalled THEN "mvn" ELSE "exit"
    ELSE IF mvnwFound THEN "./mvnw" ELSE "exit"

\* Builder.build as called by runCommand: rm -rf target, cd repoDir, pick the maven
\* command, run it, check target; catch: cd back and processError; finally: cd back
BuilderBuild ==
    /\ ~exited
    /\ tasks[CmdTask].pc = "build"
    /\ invoked' = invoked \cup {"build"}
    /\ \E mvnwExists \in BOOLEAN, mvnwFound \in BOOLEAN, mvnInstalled \in BOOLEAN,
          mvnOk \in BOOLEAN, produced \in TargetStates :
         LET currentDir == cwd
             thrown == ~mvnOk \/ ~produced.exists
             mvnCommand == MvnCommand(mvnwExists, mvnwFound, mvnInstalled)
             met == [builderSeen EXCEPT
                       !.callerDir = currentDir,
                       !.wrapper = IF mvnwExists THEN "present" ELSE "absent",
                       !.mvnFound = ~mvnwExists /\ mvnInstalled]
         IN  /\ logged' = IF mvnwExists THEN logged
                           ELSE logged \cup {"mvnwNotFound"}
             /\ IF mvnCommand = "exit"
                THEN /\ CommandNotFoundOptions.exitProcess
                     /\ ExitProcess(CommandNotFoundOptions, "build", CmdTask)
                     /\ cwd' = repoDir
                     /\ target' = NoTarget
                     /\ builderSeen' = [met EXCEPT !.built = "exit", !.ran = "none",
                                                   !.mvnExit = "none"]
                     /\ tasks' = [tasks EXCEPT
                                    ![CmdTask].steps = Log(CmdTask, "build")]
                ELSE
                  /\ cwd' = currentDir
                  /\ target' = produced
                  /\ builderSeen' = [met EXCEPT
                                       !.ran = mvnCommand,
                                       !.mvnExit = IF mvnOk THEN "ok" ELSE "failed",
                                       !.built = IF thrown THEN "failed" ELSE "ok"]
                  /\ IF thrown /\ BuildErrorOptions.exitProcess
                     THEN /\ ExitProcess(BuildErrorOptions, "build", CmdTask)
                          /\ tasks' = [tasks EXCEPT
                                         ![CmdTask].steps = Log(CmdTask, "build")]
                     ELSE /\ tasks' = [tasks EXCEPT
                                         ![CmdTask].pc = "deploy",
                                         ![CmdTask].steps =
                                            IF thrown THEN Log(CmdTask, "build")
                                            ELSE Log(CmdTask, "build") \o <<"built">>]
                          /\ UNCHANGED <<exited, exitCode, failure>>
    /\ UNCHANGED <<cfgVars, status, sigint, standaloneVars,
                   command, argv, procs, killReport, repoDir,
                   plugins, envRHO, watcherVars, timers, isProcessing, osVars,
                   histVars, timedOut, reported>>

\* Builder.deploy as called by runCommand: target must exist, the main jars are
\* copied, then the lib jars; any throw ends in fileSystemError
BuilderDeploy ==
    /\ ~exited
    /\ tasks[CmdTask].pc = "deploy"
    /\ invoked' = invoked \cup {"deploy"}
    /\ \E cpMainOk \in BOOLEAN, cpLibOk \in BOOLEAN :
         LET mainJars == target.jars \cap {"main"}
             libJars == target.jars \cap {"lib"}
             found == target.exists /\ (mainJars # {} \/ libJars # {})
             mainCopied == found /\ mainJars # {} /\ cpMainOk
             mainThrew == found /\ mainJars # {} /\ ~cpMainOk
             libCopied == found /\ ~mainThrew /\ libJars # {} /\ cpLibOk
             libThrew == found /\ ~mainThrew /\ libJars # {} /\ ~cpLibOk
             thrown == ~found \/ mainThrew \/ libThrew
         IN  /\ plugins' = plugins \cup (IF mainCopied THEN mainJars ELSE {})
                                    \cup (IF libCopied THEN libJars ELSE {})
             /\ builderSeen' = [builderSeen EXCEPT
                                  !.pluginsBefore = plugins,
                                  !.deployed = IF thrown THEN "failed" ELSE "ok"]
             /\ IF thrown /\ DeployErrorOptions.exitProcess
                THEN /\ ExitProcess(DeployErrorOptions, "deploy", CmdTask)
                     /\ tasks' = [tasks EXCEPT
                                    ![CmdTask].steps = Log(CmdTask, "deploy")]
                     /\ UNCHANGED <<watcherVars, isProcessing>>
                ELSE /\ UNCHANGED <<exited, exitCode, failure>>
                     /\ IF command = "build"
                        THEN Finish(CmdTask)
                        ELSE /\ tasks' = [tasks EXCEPT
                                            ![CmdTask].pc = "run",
                                            ![CmdTask].steps =
                                               IF thrown THEN Log(CmdTask, "deploy")
                                               ELSE Log(CmdTask, "deploy")
                                                      \o <<"deployed">>]
                             /\ UNCHANGED <<watcherVars, isProcessing>>
    /\ UNCHANGED <<cfgVars, status, uiVars, standaloneVars,
                   command, argv, procs, killReport, cwd, repoDir,
                   target, envRHO, timers, osVars, histVars, timedOut, reported>>

\* the command has returned and nothing keeps the event loop alive: node exits 0
CmdReturn ==
    /\ ~exited
    /\ command # "watch"
    /\ tasks[CmdTask].pc = "idle"
    /\ exited' = TRUE
    /\ exitCode' = 0
    /\ UNCHANGED <<cfgVars, status, uiVars, standaloneVars,
                   cmdVars, diskVars, envRHO, failure, watcherVars,
                   timers, isProcessing, tasks, osVars, histVars, timedOut, reported>>

\* the user runs `rh kill` once more: a new CLI process on the same machine
CmdAgain ==
    /\ exited /\ exitCode = 0
    /\ command = "kill"
    /\ killReport.calls + 1 < MaxKillCalls
    /\ exited' = FALSE
    /\ exitCode' = -1
    /\ httpPort' = DefaultHttpPort
    /\ tasks' = [tasks EXCEPT ![CmdTask].pc = "start"]
    /\ killReport' = [IdleKillReport EXCEPT !.calls = killReport.calls + 1]
    /\ invoked' = {}
    /\ UNCHANGED <<originalRHO, status, uiVars, standaloneVars,
                   command, argv, procs, diskVars, envRHO,
                   failure, watcherVars, timers, isProcessing, osVars, histVars,
                   timedOut, reported>>

\* a signalled process of the table exits
ProcTableExit ==
    /\ \E p \in Pids :
         /\ procs[p].state = "terminating"
         /\ procs' = [procs EXCEPT ![p].state = "gone"]
    /\ UNCHANGED <<cfgVars, status, uiVars, standaloneVars,
                   command, argv, killReport, invoked, diskVars,
                   envRHO, exited, exitCode, failure, watcherVars, timers, isProcessing,
                   tasks, osVars, histVars, timedOut, reported>>

NextCmd ==
    \/ CmdDispatch
    \/ CmdProbe
    \/ CmdKill
    \/ BuilderBuild
    \/ BuilderDeploy
    \/ RunSpawn(CmdTask)
    \/ PollWake(CmdTask)
    \/ Tick
    \/ ProcBind
    \/ ProcFail
    \/ ProcExit
    \/ ProcTableExit
    \/ CmdReturn
    \/ CmdAgain

SpecCmd == InitCmd /\ [][NextCmd]_vars

\* ------------------------------------------------------------ the options string
\* ProcessManager.onlyPrintConfig on its own: the options string is a sequence of
\* characters, and the regular expression is evaluated character by character.
\* bound: length of the options string
MaxOptionLen == 4

\* characters of the options string: the space, the dash, the three flag letters
\* and one other letter
OptionChars == {" ", "-", "t", "c", "v", "o"}

\* the members of \s among OptionChars
Whitespace == {" "}

FlagLetters == {"t", "c", "v"}

OptionStrings == UNION {[1 .. n -> OptionChars] : n \in 0 .. MaxOptionLen}

\* /.*-t.*|.*-c.*|.*-v.*/.test(restheartOptions) of the earlier variant: a dash
\* followed by a flag letter anywhere in the string
RegexTest_Substring(string) ==
    \E i \in 1 .. Len(string) - 1 :
        string[i] = "-" /\ string[i + 1] \in FlagLetters

\* /(\s|^)-t(\s|$)|(\s|^)-c(\s|$)|(\s|^)-v(\s|$)/.test(restheartOptions): a dash
\* and a flag letter, with whitespace or the start of the string before them and
\* whitespace or the end of the string after them
RegexTest(string) ==
    \E i \in 1 .. Len(string) - 1 :
        /\ i = 1 \/ string[i - 1] \in Whitespace
        /\ string[i] = "-" /\ string[i + 1] \in FlagLetters
        /\ i + 1 = Len(string) \/ string[i + 2] \in Whitespace

\* what neither the call under test nor the download touches
quietVars == <<cfgVars, osVars, status, envRHO, watcherVars, timers, isProcessing,
               tasks, histVars, timedOut, reported, cmdVars, diskVars, uiVars>>

InitOptions ==
    /\ httpPort = DefaultHttpPort
    /\ originalRHO = <<>>
    /\ envRHO = originalRHO
    /\ exited = FALSE
    /\ exitCode = -1
    /\ failure = Fail("none", -1)
    /\ watching = FALSE
    /\ timers = <<>>
    /\ isProcessing = FALSE
    /\ tasks = [t \in TaskIds |-> IdleTask]
    /\ starting = 0
    /\ serving = "none"
    /\ listeners = {}
    /\ changes = 0
    /\ burst = 0
    /\ started = 0
    /\ skipped = FALSE
    /\ quiet = 0
    /\ timedOut = FALSE
    /\ reported = "none"
    /\ status = IdleStatus
    /\ command = "run"
    /\ argv = NoArgv
    /\ procs = NoProcs
    /\ killReport = IdleKillReport
    /\ invoked = {}
    /\ cwd = "project"
    /\ repoDir = ConfigRepoDir(cwd)
    /\ target = NoTarget
    /\ plugins = {}
    /\ builderSeen = IdleBuilder
    /\ debounceTime = 0
    /\ sigint = "idle"
    /\ logged = {}
    /\ optionsTest \in {[IdleOptionsTest EXCEPT !.pc = "call", !.string = str] :
                            str \in OptionStrings}
    /\ download = IdleDownload

\* ProcessManager.onlyPrintConfig(restheartOptions)
OnlyPrintConfigCall ==
    /\ optionsTest.pc = "call"
    /\ optionsTest' = [optionsTest EXCEPT !.pc = "done",
                                          !.result = RegexTest(optionsTest.string)]
    /\ UNCHANGED <<quietVars, exited, exitCode, failure, download>>

NextOptions == OnlyPrintConfigCall

SpecOptions == InitOptions /\ [][NextOptions]_vars

\* ------------------------------------------------------------ rh install
\* The artifact download of Installer, against a server whose responses are
\* arbitrary: each request is answered by 200, by a redirect with or without a
\* Location header, by another status, by a request error, or by nothing until the
\* request times out.
\* bound: redirects counted one by one; the counter stays at the bound from there on
MaxRedirects == 3

Versions == {"latest", "8.1.0"}

\* the two release URLs of downloadRESTHeart, and one more host a server can name
Urls == {"releases/latest", "releases/download", "mirror"}

RedirectCodes == {301, 302}

OtherCodes == {404, 500}

\* downloadRESTHeart: const url = restheartVersion === 'latest' ? ... : ...
ReleaseUrl(restheartVersion) ==
    IF restheartVersion = "latest" THEN "releases/latest" ELSE "releases/download"

NetworkErrorOptions == [exitProcess |-> TRUE, exitCode |-> 1]

InitInstall ==
    /\ httpPort = DefaultHttpPort
    /\ originalRHO = <<>>
    /\ envRHO = originalRHO
    /\ exited = FALSE
    /\ exitCode = -1
    /\ failure = Fail("none", -1)
    /\ watching = FALSE
    /\ timers = <<>>
    /\ isProcessing = FALSE
    /\ tasks = [t \in TaskIds |-> IdleTask]
    /\ starting = 0
    /\ serving = "none"
    /\ listeners = {}
    /\ changes = 0
    /\ burst = 0
    /\ started = 0
    /\ skipped = FALSE
    /\ quiet = 0
    /\ timedOut = FALSE
    /\ reported = "none"
    /\ status = IdleStatus
    /\ command = "install"
    /\ argv = NoArgv
    /\ procs = NoProcs
    /\ killReport = IdleKillReport
    /\ invoked = {}
    /\ cwd = "project"
    /\ repoDir = ConfigRepoDir(cwd)
    /\ target = NoTarget
    /\ plugins = {}
    /\ builderSeen = IdleBuilder
    /\ debounceTime = 0
    /\ sigint = "idle"
    /\ logged = {}
    /\ optionsTest = IdleOptionsTest
    /\ download \in {[IdleDownload EXCEPT !.pc = "start", !.version = v] : v \in Versions}

installFrame == <<quietVars, optionsTest>>

\* ErrorHandler.networkError(..., { exitProcess: true }) inside the download
NetworkError(kind, code) ==
    /\ download' = [download EXCEPT !.pc = "failed", !.error = kind,
                                    !.statusCode = code]
    /\ exited' = NetworkErrorOptions.exitProcess
    /\ exitCode' = NetworkErrorOptions.exitCode
    /\ failure' = Fail("download", CmdTask)

\* Installer.downloadRESTHeart: the URL of the version, the write stream, and the
\* first call of downloadAndExtractRESTHeart, which issues https.get
DownloadRESTHeart ==
    /\ ~exited
    /\ download.pc = "start"
    /\ download' = [download EXCEPT !.pc = "request",
                                    !.url = ReleaseUrl(download.version)]
    /\ UNCHANGED <<installFrame, exited, exitCode, failure>>

\* response.statusCode === 200: extractAndInstallRESTHeart(response, file)
Response200 ==
    /\ ~exited
    /\ download.pc = "request"
    /\ download' = [download EXCEPT !.pc = "extract", !.statusCode = 200]
    /\ UNCHANGED <<installFrame, exited, exitCode, failure>>

\* response.statusCode === 302 || 301 with a Location header: the stream is
\* replaced and downloadAndExtractRESTHeart calls itself with the new URL
ResponseRedirect ==
    /\ ~exited
    /\ download.pc = "request"
    /\ \E code \in RedirectCodes, redirectUrl \in Urls :
         download' = [download EXCEPT
                        !.url = redirectUrl,
                        !.statusCode = code,
                        !.redirects = IF @ < MaxRedirects THEN @ + 1 ELSE @]
    /\ UNCHANGED <<installFrame, exited, exitCode, failure>>

\* a redirect without a Location header
ResponseRedirectNoLocation ==
    /\ ~exited
    /\ download.pc = "request"
    /\ \E code \in RedirectCodes : NetworkError("noLocation", code)
    /\ UNCHANGED installFrame

\* any other status code
ResponseOther ==
    /\ ~exited
    /\ download.pc = "request"
    /\ \E code \in OtherCodes : NetworkError("status", code)
    /\ UNCHANGED installFrame

\* request.on('error', ...)
RequestError ==
    /\ ~exited
    /\ download.pc = "request"
    /\ NetworkError("request", download.statusCode)
    /\ UNCHANGED installFrame

\* request.setTimeout(30000, ...): the socket of the current request, or of an
\* earlier request of the chain whose response was left unread, stays idle for
\* 30 s; a server that keeps the sockets busy never lets it fire
RequestTimeout ==
    /\ ~exited
    /\ download.pc = "request"
    /\ NetworkError("timeout", download.statusCode)
    /\ UNCHANGED installFrame

\* the outcomes of one https.get
RequestOutcome ==
    \/ Response200
    \/ ResponseRedirect
    \/ ResponseRedirectNoLocation
    \/ ResponseOther
    \/ RequestError
    \/ RequestTimeout

NextInstall ==
    \/ DownloadRESTHeart
    \/ Response200
    \/ ResponseRedirect
    \/ ResponseRedirectNoLocation
    \/ ResponseOther
    \/ RequestError
    \/ RequestTimeout

SpecInstall == InitInstall /\ [][NextInstall]_vars

\* every https.get has an outcome: the server answers, the request fails, or it
\* times out
FairSpecInstall ==
    /\ SpecInstall
    /\ WF_vars(DownloadRESTHeart)
    /\ WF_vars(RequestOutcome)

\* ------------------------------------------------------------ properties
IsPrefix(a, b) == Len(a) <= Len(b) /\ a = SubSeq(b, 1, Len(a))
Range(q) == {q[i] : i \in 1 .. Len(q)}
CyclesInProgress == {t \in CycleIds : tasks[t].pc # "idle" \/ tasks[t].killPending}
BurstFired == burst >= 1 /\ timers = <<>>

\* C1 (as stated): once the debounce timer of a burst of N >= 1 change events has
\* fired, the burst has started exactly one rebuild cycle.
C1_ExactlyOneCyclePerBurst == BurstFired => started = 1

\* C1 (amended): a burst starts at most one rebuild cycle; once its timer has fired
\* it has started exactly one if no cycle was in progress at that moment and none
\* if one was; and a timer is due only after a full debounce period without events.
C1_Coalescing ==
    /\ started <= 1
    /\ BurstFired => started = (IF skipped THEN 0 ELSE 1)
    /\ TimerDue => quiet = DebounceTicks

C1_Witness == burst >= 2 /\ BurstFired /\ started = 1 /\ ~skipped

\* C2: at most one rebuild cycle is in progress at any time, and a timer that
\* fires while one is in progress changes neither the tasks, nor the managed
\* processes, nor the environment, and leaves isProcessing set.
C2_ReentrancyGuard ==
    /\ [](Cardinality(CyclesInProgress) <= 1 /\ (isProcessing <=> CyclesInProgress # {}))
    /\ [][(Len(timers') < Len(timers) /\ isProcessing) =>
            (isProcessing' /\ UNCHANGED <<tasks, osVars, envRHO, exited>>)]_vars

C2_Witness == skipped /\ isProcessing /\ Cardinality(CyclesInProgress) = 1

\* C3 (as stated): the failure of a step of a watch-triggered rebuild cycle never
\* terminates the CLI process.
C3_CycleFailureIsNonFatal == exited => failure.task \notin CycleIds

StepsWithStop == <<"stop", "stopped", "build", "built", "deploy", "deployed", "start">>
StepsWithoutStop == <<"build", "built", "deploy", "deployed", "start">>

C5_StopWaitsForPortsToClear ==
    \A t \in CycleIds :
        (tasks[t].pc \in {"deploy", "run", "poll"}
           /\ "stopped" \in Range(tasks[t].steps))
        => serving # "terminating"

PollingCounts ==
    /\ \A t \in TaskIds :
          /\ tasks[t].probes <= PollAttempts
          /\ tasks[t].pc = "poll" =>
                /\ tasks[t].probes + tasks[t].timeout = PollAttempts
                /\ tasks[t].timeout >= 1
                /\ tasks[t].sleep \in 0 .. PollTicks
    /\ timedOut => \E t \in TaskIds : failure = Fail("start", t)
                                       /\ tasks[t].probes = PollAttempts

\* C6: the poll loop makes one probe per attempt, never more than PollAttempts;
\* probes made plus attempts left is PollAttempts while polling; a run that fails
\* for lack of liveness has made exactly PollAttempts probes; and whatever the
\* probes return, a run that is polling eventually stops polling.
C6_BoundedPolling ==
    /\ []PollingCounts
    /\ \A t \in TaskIds : (tasks[t].pc = "poll") ~> (tasks[t].pc # "poll")

C6_Witness == timedOut /\ \E t \in TaskIds : tasks[t].probes = PollAttempts

\* C7: once the poll window has elapsed without liveness the CLI has exited with a
\* non-zero code, the run is reported as failed and never as running, the process
\* was spawned once by that run, and nothing is spawned or probed afterwards.
C7_TimeoutIsFatal ==
    /\ [](timedOut => /\ exited
                      /\ exitCode # 0
                      /\ reported = "failed"
                      /\ \E t \in TaskIds : failure = Fail("start", t)
                                             /\ tasks[t].spawns = 1)
    /\ [][timedOut => UNCHANGED <<tasks, starting, reported, envRHO>>]_vars

C7_Witness == timedOut /\ exited /\ exitCode = 1 /\ reported = "failed"

Occurrences(q, x) == Cardinality({i \in 1 .. Len(q) : q[i] = x})
HasStarted == reported # "none" \/ \E t \in TaskIds : tasks[t].spawns >= 1
ExpectedRHO ==
    IF originalRHO = <<>> THEN Extra(httpPort)
    ELSE originalRHO \o <<Sep>> \o Extra(httpPort)

\* C8: after every start of the session RHO is exactly A;<directive> (<directive>
\* alone when A is empty), A being the value captured at construction, and the
\* port directive occurs in it once however many restarts there were.
C8_EnvironmentMerge ==
    /\ envRHO \in {originalRHO, ExpectedRHO}
    /\ HasStarted => envRHO = ExpectedRHO
    /\ Occurrences(envRHO, PortDirective(httpPort)) <= 1

C8_Witness ==
    /\ originalRHO # <<>>
    /\ changes >= 2
    /\ \E t \in CycleIds : tasks[t].pc = "poll" /\ tasks[t].spawns = 1
    /\ envRHO = originalRHO \o <<Sep>> \o Extra(httpPort)

StatusDone == status.pc = "idle" /\ status.result # "none"

\* C9 (as stated): for every httpPort in 1..65535 a finished isRunning call returned
\* true exactly when a listener was bound on httpPort or on httpPort+1000 when it
\* probed them; in particular a listener on the primary port is never reported as
\* not running.
C9_LivenessOverPortRange ==
    StatusDone => (status.result = "running" <=> (status.httpOpen \/ status.debugOpen))

\* C10 (as stated): a finished isRunning call returned true exactly when its probe
\* of httpPort succeeded or its probe of httpPort+1000 succeeded.
C10_IsRunningIsOrOfProbes ==
    StatusDone =>
        (status.result = "running" <=> (status.first = "true" \/ status.second = "true"))

PrintOnlyRequest == \E i \in 1 .. Len(argv.options) : argv.options[i] \in {"-t", "-c", "-v"}
Signalled == {p \in Pids : procs[p].signalled}
CmdOver == tasks[CmdTask].pc = "idle" \/ exited

\* C11: in a run command whose trailing options contain -t, -c or -v, checkAndKill,
\* kill, build and deploy are never invoked (with --build too), no process is
\* signalled or spawned, and the command is over once java has printed.
C11_PrintOnlyRunShortCircuit ==
    (command = "run" /\ PrintOnlyRequest) =>
        /\ invoked = {}
        /\ Signalled = {}
        /\ builderSeen = IdleBuilder
        /\ starting = 0
        /\ tasks[CmdTask].pc \in {"start", "run", "idle"}
        /\ reported \in {"none", "printed"}
        /\ reported = "printed" => tasks[CmdTask].pc = "idle"

C11_Witness ==
    /\ command = "run" /\ argv.build /\ PrintOnlyRequest
    /\ reported = "printed" /\ exited /\ exitCode = 0
    /\ procs["p1"].state = "alive"

\* C12 (as stated): a watch command whose trailing options contain a print-only
\* flag never sends a termination signal to a running instance.
C12_PrintOnlyWatchSendsNoSignal ==
    (command = "watch" /\ PrintOnlyRequest) => Signalled = {}

NothingMatches == \A p \in Pids : ~(procs[p].name = "java" /\ procs[p].cmd = "restheart")

C14_PartialFailureTolerantKill ==
    killReport.outcome = "signalled" =>
        /\ \A p \in Pids :
              (procs[p].name = "java" /\ procs[p].cmd = "restheart" /\ procs[p].killable)
                 => procs[p].signalled
        /\ killReport.sent \subseteq Signalled
        /\ \A p \in killReport.failed : ~procs[p].killable /\ ~procs[p].signalled
        /\ failure.step # "stop"

C14_Witness ==
    /\ killReport.outcome = "signalled"
    /\ killReport.failed = {"p2"}
    /\ killReport.sent = {"p1", "p3"}
    /\ tasks[CmdTask].pc # "kill" /\ failure.step = "none"

\* C15 (as stated): the kill command invoked with --port P signals only the
\* instance that listens on P.
C15_KillPortSignalsOnlyThatInstance ==
    (command = "kill" /\ argv.port # 0) =>
        \A p \in Signalled : procs[p].port = argv.port

Before(q, a, b) ==
    \A j \in 1 .. Len(q) : q[j] = b => \E i \in 1 .. j - 1 : q[i] = a

ErrorRaised ==
    \/ failure.step # "none"
    \/ killReport.outcome = "error"

\* C17 (as stated): a build, run or kill command in which an error was raised ends
\* with a non-zero exit code.
C17_OneShotErrorsAreFatal ==
    (command \in {"build", "run", "kill"} /\ ErrorRaised /\ exited) => exitCode # 0

\* C18: when java is not found run ends the CLI with a non-zero code before it has
\* run java, spawned a process, changed RHO or probed, and nothing happens after.
C18_MissingJavaFailsFast ==
    /\ [](failure.step = "nojava" =>
            /\ exited /\ exitCode # 0
            /\ tasks[failure.task].spawns = 0 /\ tasks[failure.task].probes = 0
            /\ tasks[failure.task].pc = "run")
    /\ [][(failure.step = "nojava" \/ failure'.step = "nojava") =>
            UNCHANGED <<tasks, starting, serving, envRHO, reported>>]_vars

C18_Witness ==
    /\ failure = Fail("nojava", CmdTask) /\ exited /\ exitCode = 1
    /\ command = "run" /\ originalRHO # <<>>

\* C19 (as stated): when deploy has failed the plugins directory holds what it held
\* when deploy was called.
C19_NoPartialDeploy ==
    builderSeen.deployed = "failed" => plugins = builderSeen.pluginsBefore

\* C20: whenever build is over, on success, on a failed maven run and on the paths
\* that end the CLI, the working directory is the one build was called from.
C20_BuildRestoresWorkingDirectory ==
    builderSeen.built # "none" => cwd = builderSeen.callerDir

C20_Witness ==
    /\ builderSeen.built = "exit" /\ exited
    /\ cwd = "home" /\ builderSeen.callerDir = "home"

\* C21 (as stated): the debounce interval of an attached watcher equals the value
\* given with --debounce-time, and is 1000 ms when the option is not given.
C21_DebounceTimeIsConfigurable ==
    watching => debounceTime = argv.debounceTime

\* C22: a rebuild cycle starts only when at least debounceTime (1000 ms when no
\* option reaches the watcher) has passed since the most recent change event; a
\* pending timer fires exactly debounceTime after the event that armed it; and
\* when the only two change events of a session fall into one burst, the burst
\* starts exactly one cycle once its timer has fired.
C22_CycleStartsAfterDebounce ==
    /\ [][started' > started =>
            /\ quiet * TickMs >= debounceTime
            /\ debounceTime = DefaultDebounceMs
            /\ timers' = <<>>]_vars
    /\ [](\A i \in 1 .. Len(timers) :
             (timers[i] + quiet) * TickMs = debounceTime)
    /\ []((changes = 2 /\ burst = 2 /\ timers = <<>>) => started = 1)

C22_Witness ==
    /\ changes = 2 /\ burst = 2 /\ timers = <<>> /\ started = 1
    /\ quiet * TickMs = DefaultDebounceMs
    /\ \E t \in CycleIds : tasks[t].pc = "probe"

CycleFailed == failure.task \in CycleIds

\* C23 (as stated): after a rebuild cycle has ended, by completing or by the
\* failure of one of its steps, the CLI is alive with isProcessing cleared, and the
\* next debounce timer that fires starts exactly one cycle.
C23_CycleEndRearmsWatcher ==
    /\ [](CycleFailed => (~exited /\ ~isProcessing))
    /\ [](CyclesInProgress = {} => ~isProcessing)
    /\ [][(Len(timers') < Len(timers) /\ CyclesInProgress = {}) =>
            (started' = 1 /\ Cardinality(CyclesInProgress') = 1)]_vars

SigintExit == exited /\ sigint = "exit"

\* C24 (as stated): when the CLI has exited on SIGINT, no java process spawned by
\* the session is still starting, and none that the session started is serving
\* without having received a termination signal.
C24_SigintKillsManagedProcess ==
    SigintExit => (starting = 0 /\ (HasStarted => serving # "up"))

\* C25 (as stated): every checkPort call that isRunning makes resolves, true exactly
\* when the port it probed had a listener, and never throws or rejects.
C25_CheckPortNeverRejects ==
    /\ status.first \in {"none", "true", "false"}
    /\ status.second \in {"none", "true", "false"}
    /\ StatusDone => /\ (status.first = "true" <=> status.httpOpen)
                     /\ (status.second = "true" <=> status.debugOpen)

\* C26: a finished status call has printed 'running' exactly when its isRunning
\* call returned true and 'not running' otherwise, with localhost and the
\* configured httpPort; and no step of a status call signals or spawns a process
\* or changes the configuration or the environment.
C26_StatusReportsIsRunning ==
    /\ [](StatusDone =>
            /\ status.line.text \in {"running", "notRunning"}
            /\ status.line.text = "running" <=> status.result = "running"
            /\ status.line.host = "localhost"
            /\ status.line.port = httpPort)
    /\ [](status.line = NoLine \/ StatusDone)
    /\ [][status' # status =>
            UNCHANGED <<cfgVars, osVars, procs, envRHO, repoDir, exited>>]_vars

C26_Witness ==
    /\ StatusDone /\ status.line = [text |-> "running", host |-> "localhost",
                                     port |-> MaxPort - DebugPortOffset]
    /\ status.first = "false" /\ status.second = "true"

\* C27: the step in which an error event of the filesystem watcher is logged does
\* not end the CLI and changes neither the pending debounce timers, nor
\* isProcessing, nor the tasks, nor the watcher; no watcher error ever ends the CLI.
C27_WatcherErrorsAreLoggedOnly ==
    /\ [][("watcherError" \in logged' /\ "watcherError" \notin logged) =>
            UNCHANGED <<exited, exitCode, failure, timers, isProcessing, tasks,
                        burstVars, watcherVars, osVars>>]_vars
    /\ [](failure.step # "watcher")

C27_Witness ==
    /\ "watcherError" \in logged /\ ~exited /\ watching
    /\ timers # <<>> /\ isProcessing

\* C28 (as stated): the watcher is attached only in a watch command whose initial
\* run has reported RESTHeart as running; after a start that did not succeed no
\* watcher is attached.
C28_WatcherAttachedAfterLiveness ==
    /\ watching => (command = "watch" /\ reported = "running")
    /\ failure.step # "none" => ~watching

\* C29: a build that found no ./mvnw in the repository has logged the warning and
\* never runs ./mvnw; when mvn is installed it has executed mvn, and it has
\* succeeded whenever that maven run succeeded and produced the target directory;
\* it ends the CLI before running maven only when mvn is not installed either.
C29_MissingWrapperFallsBackToMvn ==
    builderSeen.wrapper = "absent" =>
        /\ "mvnwNotFound" \in logged
        /\ builderSeen.ran # "./mvnw"
        /\ builderSeen.mvnFound =>
              /\ builderSeen.ran = "mvn"
              /\ builderSeen.built \in {"ok", "failed"}
              /\ (builderSeen.mvnExit = "ok" /\ target.exists)
                    => builderSeen.built = "ok"
        /\ ~builderSeen.mvnFound =>
              (builderSeen.ran = "none" /\ builderSeen.built = "exit")

C29_Witness ==
    /\ builderSeen.wrapper = "absent" /\ builderSeen.ran = "mvn"
    /\ builderSeen.built = "ok" /\ builderSeen.deployed = "ok"
    /\ "mvnwNotFound" \in logged /\ ~exited

Dispatched == tasks[CmdTask].pc # "start"

\* C30: the configured httpPort is always within 1..65535; once --port has been
\* applied it is the given port when that is within 1..65535 and the port of
\* construction otherwise; and the step that applies a port outside the range
\* logs a configuration error, changes nothing of the configuration and does not
\* end the CLI.
C30_HttpPortStaysValid ==
    /\ [](httpPort \in 1 .. MaxPort)
    /\ [](Dispatched =>
            httpPort = (IF argv.port \in 1 .. MaxPort THEN argv.port
                        ELSE DefaultHttpPort))
    /\ []((Dispatched /\ argv.port \notin 0 .. MaxPort) => "configError" \in logged)
    /\ [][(~Dispatched /\ Dispatched' /\ argv.port \notin 1 .. MaxPort) =>
            UNCHANGED <<httpPort, repoDir, originalRHO, exited>>]_vars

C30_Witness ==
    /\ argv.port = MaxPort + 1 /\ command = "run"
    /\ httpPort = DefaultHttpPort /\ "configError" \in logged
    /\ reported = "running" /\ ~exited

IsJavaRestheart(p) == procs[p].name = "java" /\ procs[p].cmd = "restheart"

\* C31: only processes whose name is java and whose command line contains
\* restheart are ever signalled; a kill call makes one process.kill call per
\* matching process, each of which is either signalled or reported as failed; and
\* no step changes a process that does not match.
C31_KillSignalsOnlyJavaRestheart ==
    /\ [](\A p \in Signalled : IsJavaRestheart(p))
    /\ [](/\ \A p \in killReport.sent \cup killReport.failed : IsJavaRestheart(p)
          /\ killReport.sent \cap killReport.failed = {}
          /\ killReport.tried = Cardinality(killReport.sent \cup killReport.failed))
    /\ [][\A p \in Pids : ~IsJavaRestheart(p) => procs'[p] = procs[p]]_vars

C31_Witness ==
    /\ killReport.outcome = "signalled" /\ killReport.sent = {"p1"}
    /\ killReport.tried = 1
    /\ procs["p2"] = NodeTool /\ procs["p3"] = OtherJava(AltHttpPort)

\* C32: a change event or a timer firing that occurs while a rebuild cycle is in
\* progress changes neither the tasks, nor isProcessing, nor the managed
\* processes; the steps of a cycle only grow until it ends; and a cycle ends only
\* from its liveness polling, or with the CLI at its first failure.
C32_CycleRunsToCompletion ==
    /\ [][((changes' # changes \/ Len(timers') < Len(timers))
              /\ CyclesInProgress # {}) =>
            UNCHANGED <<tasks, isProcessing, osVars, envRHO, exited>>]_vars
    /\ [][\A t \in CycleIds :
            tasks[t].pc # "idle" =>
                \/ IsPrefix(tasks[t].steps, tasks'[t].steps) /\ tasks'[t].pc # "idle"
                \/ tasks'[t] = IdleTask /\ tasks[t].pc = "poll"
                                        /\ "start" \in Range(tasks[t].steps)]_vars
    /\ [](\A t \in CycleIds :
            IsPrefix(tasks[t].steps, StepsWithStop)
              \/ IsPrefix(tasks[t].steps, StepsWithoutStop))

C32_Witness ==
    /\ skipped /\ changes = 2 /\ timers = <<>>
    /\ \E t \in CycleIds : tasks[t].pc = "poll" /\ tasks[t].steps = StepsWithStop

C34_NoChangeIsLost ==
    (timers # <<>>) ~> (started = 1 \/ exited)

\* C34 (amended): every change event is eventually followed by the firing of its
\* burst's timer, which starts a rebuild cycle unless a cycle is in progress at
\* that moment; a burst whose timer was skipped has started no cycle, and nothing
\* starts one for it later.
C34_ChangeIsHandledOrSkipped ==
    /\ (timers # <<>>) ~> (started = 1 \/ skipped \/ exited)
    /\ []((timers = <<>> /\ skipped) => started = 0)
    /\ [][(timers = <<>> /\ skipped /\ changes' = changes) =>
            UNCHANGED <<started, skipped>>]_vars

C34_Witness ==
    /\ timers = <<>> /\ skipped /\ started = 0 /\ changes = 2
    /\ ~isProcessing /\ ~exited /\ reported = "running"

\* C35: a run call returns from its poll loop reporting the managed process as
\* running only in the step in which a probe it made after its spawn returned
\* true, and the first true probe ends the poll loop: the call makes no further
\* probe.
C35_RunningOnlyAfterTrueProbe ==
    [][/\ \A t \in TaskIds :
            /\ (tasks[t].pc = "poll" /\ tasks'[t].pc = "idle") =>
                    /\ tasks[t].sleep = 0 /\ isRunning
                    /\ tasks[t].spawns >= 1
                    /\ reported' = "running"
            /\ (tasks[t].pc = "poll" /\ tasks[t].sleep = 0 /\ isRunning
                    /\ tasks'[t] # tasks[t]) =>
                    tasks'[t].pc = "idle" /\ tasks'[t].probes = 0
       /\ (reported' = "running" /\ reported # "running") =>
            \E t \in TaskIds : tasks[t].pc = "poll" /\ isRunning]_vars

C35_Witness ==
    /\ reported = "running" /\ isRunning /\ ~timedOut /\ ~exited
    /\ started = 1 /\ ~isProcessing
    /\ \A t \in TaskIds : tasks[t].pc = "idle"

\* C36: when the options ask for print-only mode, run executes java in the
\* foreground within the one step and returns: the RHO environment value is the
\* one it found, no detached process has been spawned and no liveness probe made.
C36_PrintOnlyRunLeavesNoTrace ==
    [][\A t \in TaskIds :
          (tasks[t].pc = "run" /\ PrintOnlyRequest /\ tasks'[t] # tasks[t]) =>
              /\ tasks'[t].pc = "idle"
              /\ reported' = "printed"
              /\ envRHO' = envRHO
              /\ starting' = starting /\ serving' = serving
              /\ tasks'[t].spawns = 0 /\ tasks'[t].probes = 0
              /\ ~exited']_vars

C36_Witness ==
    /\ command = "run" /\ reported = "printed" /\ tasks[CmdTask].pc = "idle"
    /\ envRHO = originalRHO /\ starting = 0 /\ ~exited

\* the maximal runs of non-whitespace characters of a string
TokensOf(string) ==
    {SubSeq(string, ij[1], ij[2]) : ij \in
        {ij \in (1 .. Len(string)) \X (1 .. Len(string)) :
            /\ ij[1] <= ij[2]
            /\ \A k \in ij[1] .. ij[2] : string[k] \notin Whitespace
            /\ ij[1] = 1 \/ string[ij[1] - 1] \in Whitespace
            /\ ij[2] = Len(string) \/ string[ij[2] + 1] \in Whitespace}}

FlagTokens == {<<"-", letter>> : letter \in FlagLetters}

\* C37: onlyPrintConfig returns true exactly when one whitespace-delimited token
\* of the options string is -t, -c or -v; a string in which those characters
\* occur only inside a longer token is not print-only.
C37_PrintOnlyIffWholeToken ==
    optionsTest.pc = "done" =>
        (optionsTest.result <=> TokensOf(optionsTest.string) \cap FlagTokens # {})

C37_Witness ==
    /\ optionsTest.pc = "done" /\ ~optionsTest.result
    /\ optionsTest.string = <<"o", "-", "c", "o">>

RunSteps ==
    IF argv.build THEN <<"build", "built", "deploy", "deployed", "start">>
    ELSE <<"start">>

\* C38: in a run command without a print-only flag, the steps taken are, in this
\* order, checkAndKill, then build and deploy when --build is given and neither
\* of them otherwise, then start; nothing is invoked before checkAndKill has
\* completed, start is invoked at most once, and the command returns only from
\* the run call in which start was invoked once.
C38_RunCommandOrder ==
    /\ []((command = "run" /\ ~PrintOnlyRequest) =>
            LET steps == tasks[CmdTask].steps
                pc == tasks[CmdTask].pc
            IN  /\ \/ IsPrefix(steps, RunSteps)
                   \/ IsPrefix(steps, <<"stop">> \o <<"stopped">> \o RunSteps)
                /\ Occurrences(steps, "start") <= 1
                /\ tasks[CmdTask].spawns = Occurrences(steps, "start")
                /\ (steps # <<>> /\ steps # <<"stop">>) =>
                       /\ "checkAndKill" \in invoked
                       /\ pc \notin {"start", "probe", "kill"}
                /\ pc \in {"poll", "failed"} => Occurrences(steps, "start") = 1)
    /\ [][(command = "run" /\ ~PrintOnlyRequest
              /\ tasks[CmdTask].pc # "idle" /\ tasks'[CmdTask].pc = "idle") =>
            /\ tasks[CmdTask].pc = "poll"
            /\ Occurrences(tasks[CmdTask].steps, "start") = 1]_vars

C38_Witness ==
    /\ command = "run" /\ ~PrintOnlyRequest /\ ~argv.build
    /\ tasks[CmdTask].pc = "poll"
    /\ tasks[CmdTask].steps = <<"stop", "stopped", "start">>

\* C39: checkAndKill calls kill, which lists and signals processes, only when the
\* isRunning it awaited returned true; when it returned false no process is
\* signalled, kill is not invoked, and the outcome is "nothing to kill".
C39_KillOnlyWhenRunning ==
    [][(tasks[CmdTask].pc = "probe" /\ tasks'[CmdTask] # tasks[CmdTask]) =>
          IF isRunning
          THEN tasks'[CmdTask].pc = "kill" /\ procs' = procs
          ELSE /\ tasks'[CmdTask].pc # "kill"
               /\ procs' = procs
               /\ "kill" \notin invoked'
               /\ killReport'.outcome = "notRunning"
               /\ killReport'.sent = {} /\ killReport'.tried = 0]_vars

C39_Witness ==
    /\ command = "kill" /\ killReport.outcome = "notRunning"
    /\ "checkAndKill" \in invoked /\ "kill" \notin invoked
    /\ Signalled = {}
    /\ \E p \in Pids : IsJavaRestheart(p) /\ procs[p].state = "alive"

\* C40: whatever the server answers, the download eventually hands a response to
\* the extraction or stops with an error.
C40_DownloadEventuallyEnds ==
    (download.pc = "request") ~> (download.pc \in {"extract", "failed"})

====
